---- MODULE Spec2Model ----
(***************************************************************************)
(* Model of libium's add module (src/add/mod.rs): the Checks flag          *)
(* register, the ModProvider dispatcher, the error conversions and the     *)
(* add_multiple / add_single entry points.                                 *)
(***************************************************************************)
EXTENDS Integers, Sequences, FiniteSets, TLC

VARIABLES
    checks,         \* Checks.0 : the u8 held in the Cell
    hist,           \* names of the last operations called on the register
    before,         \* value of the register before the last operation
    args,           \* arguments of the last Checks::from call
    pc,             \* position of the caller inside add_single / add_multiple
    entry,          \* which entry point is running
    identifiers,    \* the Vec<String> given to add_multiple
    rest,           \* the part of `identifiers` the for loop has not consumed
    identifier,     \* the identifier ModProvider::add is working on
    call,           \* the adapter call in flight
    answer,         \* what the adapter awaited last has returned
    calls,          \* every adapter call made so far, in order
    result,         \* the Result<String> returned by the last ModProvider::add
    results,        \* every Result returned by ModProvider::add, in order
    success_names,  \* add_multiple's success_names
    failures,       \* add_multiple's failures
    profile,        \* the &mut Profile the adapters write to
    seen,           \* the register and the profile handed to each adapter call
    ret             \* the value returned to the caller of the entry point

checkVars == <<checks, hist, before, args>>
addVars == <<pc, entry, identifiers, rest, identifier, call, answer, calls,
             result, results, success_names, failures, profile, seen, ret>>
vars == <<checks, hist, before, args, pc, entry, identifiers, rest, identifier,
          call, answer, calls, result, results, success_names, failures,
          profile, seen, ret>>

(***************************************************************************)
(* Bounds                                                                  *)
(***************************************************************************)
HistLen == 3
MaxLen == 3
MaxBatch == 2

(***************************************************************************)
(* u8 arithmetic                                                           *)
(***************************************************************************)
U8 == 256

RECURSIVE BitAnd(_, _)
BitAnd(a, b) ==
    IF a = 0 \/ b = 0 THEN 0
    ELSE ((a % 2) * (b % 2)) + 2 * BitAnd(a \div 2, b \div 2)

RECURSIVE BitOr(_, _)
BitOr(a, b) ==
    IF a = 0 THEN b
    ELSE IF b = 0 THEN a
    ELSE (IF (a % 2) + (b % 2) > 0 THEN 1 ELSE 0) + 2 * BitOr(a \div 2, b \div 2)

Shl(a, k) == (a * (2 ^ k)) % U8

(***************************************************************************)
(* Checks                                                                  *)
(***************************************************************************)
NoArgs == <<>>

\* #[derive(Default)]: Cell<u8> defaults to 0
Default == 0

new_all_set == 7

set_perform_check(b) == BitOr(b, Shl(1, 0))

\* set_game_version writing the bit of perform_checks
set_game_version_bit0(b) == BitOr(b, Shl(1, 0))

set_game_version(b) == BitOr(b, Shl(1, 1))

\* set_mod_loader adding the mask instead of or-ing it
set_mod_loader_plus(b) == (b + Shl(1, 2)) % U8

set_mod_loader(b) == BitOr(b, Shl(1, 2))

\* `<<` binds tighter than `&`: self.0.get() & (1 << k)
unset_perform_check(b) == BitAnd(b, Shl(1, 0))

unset_game_version(b) == BitAnd(b, Shl(1, 1))

\* unset_mod_loader toggling the bit (`^` in place of `&`)
unset_mod_loader_toggle(b) ==
    IF BitAnd(b, Shl(1, 2)) # 0 THEN b - Shl(1, 2) ELSE b + Shl(1, 2)

unset_mod_loader(b) == BitAnd(b, Shl(1, 2))

perform_checks(b) == BitAnd(b, 1) # 0

game_version(b) == BitAnd(b, Shl(1, 1)) # 0

mod_loader(b) == BitAnd(b, Shl(1, 2)) # 0

\* reset clearing with a mask that keeps bit 0
reset_keep_bit0(b) == BitAnd(b, Shl(1, 0))

reset(b) == 0

\* Checks::from with the setters of game_version and mod_loader exchanged
from_swapped(p, g, m) ==
    LET r0 == Default
        r1 == IF p THEN set_perform_check(r0) ELSE r0
        r2 == IF g THEN set_mod_loader(r1) ELSE r1
        r3 == IF m THEN set_game_version(r2) ELSE r2
    IN  r3

from(p, g, m) ==
    LET r0 == Default
        r1 == IF p THEN set_perform_check(r0) ELSE r0
        r2 == IF g THEN set_game_version(r1) ELSE r1
        r3 == IF m THEN set_mod_loader(r2) ELSE r2
    IN  r3

\* the flags of a register value, as the three read operations report them
Flags(b) == <<perform_checks(b), game_version(b), mod_loader(b)>>

Remember(name) ==
    hist' = IF Len(hist) < HistLen THEN Append(hist, name)
            ELSE Append(Tail(hist), name)

CheckOp(name, new) ==
    /\ checks' = new
    /\ before' = checks
    /\ args' = NoArgs
    /\ Remember(name)
    /\ UNCHANGED addVars

CallDefault == CheckOp("default", Default)

CallNewAllSet == CheckOp("new_all_set", new_all_set)

CallFrom ==
    \E p \in BOOLEAN, g \in BOOLEAN, m \in BOOLEAN :
        /\ checks' = from(p, g, m)
        /\ before' = checks
        /\ args' = <<p, g, m>>
        /\ Remember("from")
        /\ UNCHANGED addVars

CallSetPerformCheck == CheckOp("set_perform_check", set_perform_check(checks))

CallSetGameVersion == CheckOp("set_game_version", set_game_version(checks))

CallSetModLoader == CheckOp("set_mod_loader", set_mod_loader(checks))

CallUnsetPerformCheck == CheckOp("unset_perform_check", unset_perform_check(checks))

CallUnsetGameVersion == CheckOp("unset_game_version", unset_game_version(checks))

CallUnsetModLoader == CheckOp("unset_mod_loader", unset_mod_loader(checks))

CallReset == CheckOp("reset", reset(checks))

InitAddIdle ==
    /\ pc = "idle"
    /\ entry = "none"
    /\ identifiers = <<>>
    /\ rest = <<>>
    /\ identifier = <<>>
    /\ call = <<>>
    /\ answer = <<>>
    /\ calls = <<>>
    /\ result = <<>>
    /\ results = <<>>
    /\ success_names = <<>>
    /\ failures = <<>>
    /\ profile = <<>>
    /\ seen = <<>>
    /\ ret = <<>>

InitChecks ==
    /\ checks = Default
    /\ hist = <<>>
    /\ before = Default
    /\ args = NoArgs
    /\ InitAddIdle

NextChecks ==
    \/ CallDefault
    \/ CallNewAllSet
    \/ CallFrom
    \/ CallSetPerformCheck
    \/ CallSetGameVersion
    \/ CallSetModLoader
    \/ CallUnsetPerformCheck
    \/ CallUnsetGameVersion
    \/ CallUnsetModLoader
    \/ CallReset

SpecChecks == InitChecks /\ [][NextChecks]_vars

LastOp == IF hist = <<>> THEN "none" ELSE hist[Len(hist)]

(***************************************************************************)
(* Identifiers: strings as sequences of characters                         *)
(***************************************************************************)
Chars == {"0", "7", "-", "+", "/", "a"}

Strings(n) == UNION {[1..k -> Chars] : k \in 0..n}

\* identifiers around the limits of i32
BoundaryIds ==
    { <<"2","1","4","7","4","8","3","6","4","7">>,
      <<"2","1","4","7","4","8","3","6","4","8">>,
      <<"-","2","1","4","7","4","8","3","6","4","8">>,
      <<"-","2","1","4","7","4","8","3","6","4","9">>,
      <<"9","9","9","9","9","9","9","9","9","9","9">> }

Identifiers == Strings(MaxLen) \cup BoundaryIds

\* the identifiers add_multiple is given: one of each shape
BatchIds == { <<"7">>, <<"a", "/", "a">>, <<"a">> }

\* char::to_digit(10); -1 stands for None
ToDigit(c) ==
    CASE c = "0" -> 0 [] c = "1" -> 1 [] c = "2" -> 2 [] c = "3" -> 3
      [] c = "4" -> 4 [] c = "5" -> 5 [] c = "6" -> 6 [] c = "7" -> 7
      [] c = "8" -> 8 [] c = "9" -> 9 [] OTHER -> -1

I32Max == 2147483647
I32Min == (-I32Max) - 1

ParseErr == [ok |-> FALSE, value |-> 0]

\* checked_mul(acc, 10) of i32 overflows
MulOverflows(acc) == acc > I32Max \div 10 \/ acc < -(I32Max \div 10)

\* checked_add(mul, x) of i32 overflows (mul >= 0, 0 <= x <= 9)
AddOverflows(mul, x) == x > I32Max - mul

\* checked_sub(mul, x) of i32 overflows (mul <= 0, 0 <= x <= 9)
SubOverflows(mul, x) == x - 1 > mul + I32Max

\* the digit loop of str::parse::<i32>: checked_mul by 10, then checked_add
\* (positive) or checked_sub (negative) of the digit
RECURSIVE ParseDigits(_, _, _)
ParseDigits(digits, acc, positive) ==
    IF digits = <<>> THEN [ok |-> TRUE, value |-> acc]
    ELSE LET x == ToDigit(Head(digits))
         IN  IF x < 0 THEN ParseErr
             ELSE IF MulOverflows(acc) THEN ParseErr
             ELSE IF positive /\ AddOverflows(acc * 10, x) THEN ParseErr
             ELSE IF ~positive /\ SubOverflows(acc * 10, x) THEN ParseErr
             ELSE ParseDigits(Tail(digits),
                              IF positive THEN acc * 10 + x ELSE acc * 10 - x,
                              positive)

\* i16 limits in place of the i32 ones
ParseI32_narrow(s) ==
    LET r == IF s = <<>> THEN ParseErr
             ELSE IF Len(s) = 1 /\ s[1] \in {"+", "-"} THEN ParseErr
             ELSE IF s[1] = "+" THEN ParseDigits(Tail(s), 0, TRUE)
             ELSE IF s[1] = "-" THEN ParseDigits(Tail(s), 0, FALSE)
             ELSE ParseDigits(s, 0, TRUE)
    IN  IF r.ok /\ (r.value > 32767 \/ r.value < -32768) THEN ParseErr ELSE r

\* identifier.parse() with the target type i32 of ModProvider::curseforge
ParseI32(s) ==
    IF s = <<>> THEN ParseErr
    ELSE IF Len(s) = 1 /\ s[1] \in {"+", "-"} THEN ParseErr
    ELSE IF s[1] = "+" THEN ParseDigits(Tail(s), 0, TRUE)
    ELSE IF s[1] = "-" THEN ParseDigits(Tail(s), 0, FALSE)
    ELSE ParseDigits(s, 0, TRUE)

\* identifier.matches(c).count()
RECURSIVE CountMatches(_, _)
CountMatches(s, c) ==
    IF s = <<>> THEN 0
    ELSE (IF Head(s) = c THEN 1 ELSE 0) + CountMatches(Tail(s), c)

\* identifier.split(c).collect::<Vec<_>>()
RECURSIVE SplitFrom(_, _, _)
SplitFrom(s, c, cur) ==
    IF s = <<>> THEN <<cur>>
    ELSE IF Head(s) = c THEN <<cur>> \o SplitFrom(Tail(s), c, <<>>)
    ELSE SplitFrom(Tail(s), c, Append(cur, Head(s)))

\* split dropping the empty segments
Split_skip_empty(s, c) ==
    SelectSeq(SplitFrom(s, c, <<>>), LAMBDA seg : seg # <<>>)

Split(s, c) == SplitFrom(s, c, <<>>)

(***************************************************************************)
(* Error and the conversions from the providers' errors                    *)
(***************************************************************************)
DomainErrors ==
    { <<"DistributionDenied">>, <<"AlreadyAdded">>, <<"DoesNotExist">>,
      <<"Incompatible">>, <<"NotAMod">> }

NOT_FOUND == "404"

FurseErrors ==
    { <<"ReqwestError", "404">>, <<"ReqwestError", "500">>,
      <<"ReqwestError", "none">>, <<"Other", "furse">> }

FerinthErrors ==
    { <<"ReqwestError", "404">>, <<"ReqwestError", "500">>,
      <<"ReqwestError", "none">>, <<"InvalidIDorSlug", "ferinth">> }

OctocrabErrors ==
    { <<"GitHub", "Not Found">>, <<"GitHub", "Bad credentials">>,
      <<"Other", "octocrab">> }

FromFurse(err) ==
    IF err[1] = "ReqwestError"
    THEN IF err[2] = NOT_FOUND THEN <<"DoesNotExist">>
         ELSE <<"CurseForgeError", err>>
    ELSE <<"CurseForgeError", err>>

\* the conversion of furse's errors copied without renaming the variant
FromFerinth_as_curseforge(err) ==
    IF err[1] = "ReqwestError"
    THEN IF err[2] = NOT_FOUND THEN <<"DoesNotExist">>
         ELSE <<"CurseForgeError", err>>
    ELSE <<"CurseForgeError", err>>

FromFerinth(err) ==
    IF err[1] = "ReqwestError"
    THEN IF err[2] = NOT_FOUND THEN <<"DoesNotExist">>
         ELSE <<"ModrinthError", err>>
    ELSE <<"ModrinthError", err>>

FromOctocrab(err) ==
    IF err[1] = "GitHub" /\ err[2] = "Not Found" THEN <<"DoesNotExist">>
    ELSE <<"GitHubError", err>>

(***************************************************************************)
(* ModProvider                                                             *)
(***************************************************************************)
Names == {"Sodium", "Lithium"}

Ok(name) == [ok |-> TRUE, name |-> name, err |-> <<>>]

Err(e) == [ok |-> FALSE, name |-> "", err |-> e]

\* the branch ModProvider::add takes, with `>= 1` in place of `== 1`
Route_some_slash(id) ==
    IF ParseI32(id).ok THEN "curseforge"
    ELSE IF CountMatches(id, "/") >= 1 THEN "github"
    ELSE "modrinth"

\* the branch ModProvider::add takes
Route(id) ==
    IF ParseI32(id).ok THEN "curseforge"
    ELSE IF CountMatches(id, "/") = 1 THEN "github"
    ELSE "modrinth"

\* hand the register and the profile to an adapter and await it
StartCall(c) ==
    /\ call' = c
    /\ calls' = Append(calls, c)
    /\ seen' = Append(seen, [checks |-> checks, profile |-> profile])
    /\ pc' = "await"

curseforge(project_id) ==
    StartCall([adapter |-> "curseforge", project_id |-> project_id])

github(id) ==
    LET split == Split(id, "/")
    IN  IF Len(split) < 2
        THEN /\ pc' = "panic"
             /\ UNCHANGED <<call, calls, seen>>
        ELSE StartCall([adapter |-> "github", owner |-> split[1],
                        repo |-> split[2]])

modrinth(id) ==
    StartCall([adapter |-> "modrinth", identifier |-> id])

\* ModProvider::add resetting the register before it dispatches
add_resets ==
    /\ pc = "add"
    /\ CASE Route(identifier) = "curseforge" ->
                curseforge(ParseI32(identifier).value)
         [] Route(identifier) = "github" -> github(identifier)
         [] OTHER -> modrinth(identifier)
    /\ checks' = reset(checks)
    /\ UNCHANGED <<hist, before, args, entry, identifiers, rest, identifier,
                   answer, result, results, success_names, failures, profile,
                   ret>>

add ==
    /\ pc = "add"
    /\ CASE Route(identifier) = "curseforge" ->
                curseforge(ParseI32(identifier).value)
         [] Route(identifier) = "github" -> github(identifier)
         [] OTHER -> modrinth(identifier)
    /\ UNCHANGED <<checkVars, entry, identifiers, rest, identifier, answer,
                   result, results, success_names, failures, profile, ret>>

\* what an adapter may answer: a name (the Modrinth adapter pairs it with
\* more), one of the domain errors, or the conversion `?` makes of an error
\* `raw` of its provider (`conv` pairs each such error with its conversion)
Outcomes(extra, conv) ==
    {[ok |-> TRUE, name |-> n, extra |-> extra, err |-> <<>>, raw |-> <<>>] :
        n \in Names}
    \cup {[ok |-> FALSE, name |-> "", extra |-> extra, err |-> e, raw |-> <<>>] :
            e \in DomainErrors}
    \cup {[ok |-> FALSE, name |-> "", extra |-> extra, err |-> c[2], raw |-> c[1]] :
            c \in conv}

AdapterReturn(adapter, extra, conv) ==
    /\ pc = "await"
    /\ call.adapter = adapter
    /\ \E o \in Outcomes(extra, conv) :
          /\ answer' = o
          /\ profile' = IF o.ok THEN Append(profile, o.name) ELSE profile
    /\ pc' = "answered"
    /\ call' = <<>>
    /\ UNCHANGED <<checkVars, entry, identifiers, rest, identifier, calls,
                   result, results, success_names, failures, seen, ret>>

curseforge_adapter ==
    AdapterReturn("curseforge", "none",
                  {<<e, FromFurse(e)>> : e \in FurseErrors})

github_adapter ==
    AdapterReturn("github", "none",
                  {<<e, FromOctocrab(e)>> : e \in OctocrabErrors})

modrinth_adapter ==
    AdapterReturn("modrinth", "more",
                  {<<e, FromFerinth(e)>> : e \in FerinthErrors})

\* ModProvider::add after a failed adapter call trying the Modrinth adapter
AddReturn_fallback ==
    /\ pc = "answered"
    /\ IF ~answer.ok /\ calls[Len(calls)].adapter # "modrinth"
       THEN /\ modrinth(identifier)
            /\ UNCHANGED <<result, results>>
       ELSE /\ result' = IF answer.ok THEN Ok(answer.name) ELSE Err(answer.err)
            /\ results' = Append(results, result')
            /\ pc' = "returned"
            /\ UNCHANGED <<call, calls, seen>>
    /\ UNCHANGED <<checkVars, entry, identifiers, rest, identifier, answer,
                   success_names, failures, profile, ret>>

\* the rest of ModProvider::curseforge / github / modrinth and of
\* ModProvider::add after the await: the adapter's result is the value of the
\* call (`.map(|o| o.0)` keeps the name of the Modrinth adapter's pair)
AddReturn ==
    /\ pc = "answered"
    /\ result' = IF answer.ok THEN Ok(answer.name) ELSE Err(answer.err)
    /\ results' = Append(results, result')
    /\ pc' = "returned"
    /\ UNCHANGED <<checkVars, entry, identifiers, rest, identifier, call,
                   answer, calls, success_names, failures, profile, seen, ret>>

(***************************************************************************)
(* add_multiple and add_single                                             *)
(***************************************************************************)
\* matches!(err, Error::ModrinthError(_))
MapErr_any_modrinth(err) ==
    IF err[1] = "ModrinthError" THEN <<"InvalidIdentifier">> ELSE err

\* the closure given to map_err
MapErr(err) ==
    IF err = <<"ModrinthError", <<"InvalidIDorSlug", "ferinth">>>>
    THEN <<"InvalidIdentifier">>
    ELSE err

add_multiple ==
    /\ pc = "idle"
    /\ \E ids \in UNION {[1..k -> BatchIds] : k \in 0..MaxBatch} :
          /\ identifiers' = ids
          /\ rest' = ids
    /\ entry' = "add_multiple"
    /\ success_names' = <<>>
    /\ failures' = <<>>
    /\ pc' = "for"
    /\ UNCHANGED <<checkVars, identifier, call, answer, calls, result,
                   results, profile, seen, ret>>

\* the next identifier dispatched without awaiting the call in flight
ForNext_no_await ==
    /\ pc \in {"for", "await"}
    /\ rest # <<>>
    /\ identifier' = Head(rest)
    /\ rest' = Tail(rest)
    /\ pc' = "add"
    /\ UNCHANGED <<checkVars, entry, identifiers, call, answer, calls, result,
                   results, success_names, failures, profile, seen, ret>>

ForNext ==
    /\ pc = "for"
    /\ rest # <<>>
    /\ identifier' = Head(rest)
    /\ rest' = Tail(rest)
    /\ pc' = "add"
    /\ UNCHANGED <<checkVars, entry, identifiers, call, answer, calls, result,
                   results, success_names, failures, profile, seen, ret>>

\* the map_err closure leaving out the failures it turns into InvalidIdentifier
Collect_drop_invalid ==
    /\ pc = "returned"
    /\ entry = "add_multiple"
    /\ IF result.ok
       THEN /\ success_names' = Append(success_names, result.name)
            /\ UNCHANGED failures
       ELSE /\ failures' = IF MapErr(result.err) = <<"InvalidIdentifier">>
                           THEN failures
                           ELSE Append(failures, <<identifier, MapErr(result.err)>>)
            /\ UNCHANGED success_names
    /\ pc' = "for"
    /\ UNCHANGED <<checkVars, entry, identifiers, rest, identifier, call,
                   answer, calls, result, results, profile, seen, ret>>

\* insert(0, ..) in place of push
Collect_prepend ==
    /\ pc = "returned"
    /\ entry = "add_multiple"
    /\ IF result.ok
       THEN /\ success_names' = <<result.name>> \o success_names
            /\ UNCHANGED failures
       ELSE /\ failures' = <<(<<identifier, MapErr(result.err)>>)>> \o failures
            /\ UNCHANGED success_names
    /\ pc' = "for"
    /\ UNCHANGED <<checkVars, entry, identifiers, rest, identifier, call,
                   answer, calls, result, results, profile, seen, ret>>

\* .map(|name| success_names.push(name)).map_err(|err| ...).ok()
Collect ==
    /\ pc = "returned"
    /\ entry = "add_multiple"
    /\ IF result.ok
       THEN /\ success_names' = Append(success_names, result.name)
            /\ UNCHANGED failures
       ELSE /\ failures' = Append(failures, <<identifier, MapErr(result.err)>>)
            /\ UNCHANGED success_names
    /\ pc' = "for"
    /\ UNCHANGED <<checkVars, entry, identifiers, rest, identifier, call,
                   answer, calls, result, results, profile, seen, ret>>

\* the loop left at the first failure
ForEnd_early ==
    /\ pc = "for"
    /\ rest = <<>> \/ failures # <<>>
    /\ ret' = <<success_names, failures>>
    /\ pc' = "done"
    /\ UNCHANGED <<checkVars, entry, identifiers, rest, identifier, call,
                   answer, calls, result, results, success_names, failures,
                   profile, seen>>

ForEnd ==
    /\ pc = "for"
    /\ rest = <<>>
    /\ ret' = <<success_names, failures>>
    /\ pc' = "done"
    /\ UNCHANGED <<checkVars, entry, identifiers, rest, identifier, call,
                   answer, calls, result, results, success_names, failures,
                   profile, seen>>

add_single ==
    /\ pc = "idle"
    /\ \E id \in Identifiers : identifier' = id
    /\ entry' = "add_single"
    /\ pc' = "add"
    /\ UNCHANGED <<checkVars, identifiers, rest, call, answer, calls, result,
                   results, success_names, failures, profile, seen, ret>>

AddSingleReturn ==
    /\ pc = "returned"
    /\ entry = "add_single"
    /\ ret' = result
    /\ pc' = "done"
    /\ UNCHANGED <<checkVars, entry, identifiers, rest, identifier, call,
                   answer, calls, result, results, success_names, failures,
                   profile, seen>>

\* the registers the constructors of Checks build
ConstructedChecks ==
    {Default, new_all_set} \cup
    {from(p, g, m) : p \in BOOLEAN, g \in BOOLEAN, m \in BOOLEAN}

InitAdd ==
    /\ checks \in ConstructedChecks
    /\ hist = <<>>
    /\ before = Default
    /\ args = NoArgs
    /\ InitAddIdle

NextSingle ==
    \/ add_single
    \/ add
    \/ curseforge_adapter
    \/ github_adapter
    \/ modrinth_adapter
    \/ AddReturn
    \/ AddSingleReturn

SpecSingle == InitAdd /\ [][NextSingle]_vars

Next ==
    \/ add_multiple
    \/ ForNext
    \/ add
    \/ curseforge_adapter
    \/ github_adapter
    \/ modrinth_adapter
    \/ AddReturn
    \/ Collect
    \/ ForEnd

Spec == InitAdd /\ [][Next]_vars

(***************************************************************************)
(* Properties of the Checks register (checked under SpecChecks)            *)
(***************************************************************************)
\* the last two operations called on the register are both `name`
TwiceInARow(name) ==
    /\ Len(hist) >= 2
    /\ hist[Len(hist)] = name
    /\ hist[Len(hist) - 1] = name

\* C1: immediately after the unset operation of a flag, the read operation
\* of that flag returns false.
C1_UnsetReadsFalse ==
    /\ LastOp = "unset_perform_check" => ~perform_checks(checks)
    /\ LastOp = "unset_game_version" => ~game_version(checks)
    /\ LastOp = "unset_mod_loader" => ~mod_loader(checks)

\* C2: the set or unset operation of a flag leaves the values read for the
\* other two flags as they were before the call.
C2_OtherFlagsUnchanged ==
    /\ LastOp \in {"set_perform_check", "unset_perform_check"} =>
          /\ game_version(checks) = game_version(before)
          /\ mod_loader(checks) = mod_loader(before)
    /\ LastOp \in {"set_game_version", "unset_game_version"} =>
          /\ perform_checks(checks) = perform_checks(before)
          /\ mod_loader(checks) = mod_loader(before)
    /\ LastOp \in {"set_mod_loader", "unset_mod_loader"} =>
          /\ perform_checks(checks) = perform_checks(before)
          /\ game_version(checks) = game_version(before)

\* C3: immediately after the set operation of a flag, the read operation of
\* that flag returns true.
C3_SetReadsTrue ==
    /\ LastOp = "set_perform_check" => perform_checks(checks)
    /\ LastOp = "set_game_version" => game_version(checks)
    /\ LastOp = "set_mod_loader" => mod_loader(checks)

C3_Witness ==
    /\ LastOp = "set_game_version"
    /\ ~game_version(before)
    /\ game_version(checks)

\* C4: setting a flag that already reads true, or unsetting a flag that
\* already reads false, leaves all three flags as they were.
C4_RedundantCallIsNoOp ==
    /\ (LastOp = "set_perform_check" /\ perform_checks(before)) =>
          Flags(checks) = Flags(before)
    /\ (LastOp = "set_game_version" /\ game_version(before)) =>
          Flags(checks) = Flags(before)
    /\ (LastOp = "set_mod_loader" /\ mod_loader(before)) =>
          Flags(checks) = Flags(before)
    /\ (LastOp = "unset_perform_check" /\ ~perform_checks(before)) =>
          Flags(checks) = Flags(before)
    /\ (LastOp = "unset_game_version" /\ ~game_version(before)) =>
          Flags(checks) = Flags(before)
    /\ (LastOp = "unset_mod_loader" /\ ~mod_loader(before)) =>
          Flags(checks) = Flags(before)

SetUnsetOps ==
    {"set_perform_check", "set_game_version", "set_mod_loader",
     "unset_perform_check", "unset_game_version", "unset_mod_loader"}

\* C5: when the same set or unset operation is called twice in a row, the
\* second call leaves the register as the first call left it.
C5_SetUnsetIdempotent ==
    \A name \in SetUnsetOps : TwiceInARow(name) => checks = before

C5_Witness ==
    /\ TwiceInARow("unset_game_version")
    /\ Len(hist) = 3
    /\ hist[1] = "new_all_set"
    /\ checks = Shl(1, 1)

\* C6: after reset, the three read operations all return false.
C6_ResetClearsAll ==
    LastOp = "reset" => Flags(checks) = <<FALSE, FALSE, FALSE>>

C6_Witness ==
    /\ LastOp = "reset"
    /\ Flags(before) = <<TRUE, TRUE, TRUE>>
    /\ checks = 0

\* C7: the register built by Checks::from(p, g, m) reads p, g and m.
C7_FromReadsArguments ==
    LastOp = "from" => Flags(checks) = args

C7_Witness ==
    /\ LastOp = "from"
    /\ args = <<TRUE, FALSE, TRUE>>
    /\ perform_checks(checks) /\ ~game_version(checks) /\ mod_loader(checks)

(***************************************************************************)
(* Properties of ModProvider::add (checked under SpecSingle)               *)
(***************************************************************************)
IsDigit(c) == c \in {"0", "1", "2", "3", "4", "5", "6", "7", "8", "9"}

\* the string without its leading sign, if it has one
Unsigned(s) == IF s # <<>> /\ s[1] \in {"+", "-"} THEN Tail(s) ELSE s

\* an optional sign followed by one or more decimal digits
IsSignedDecimal(s) ==
    /\ Unsigned(s) # <<>>
    /\ \A i \in DOMAIN Unsigned(s) : IsDigit(Unsigned(s)[i])

RECURSIVE StripZeros(_)
StripZeros(d) ==
    IF d # <<>> /\ Head(d) = "0" THEN StripZeros(Tail(d)) ELSE d

\* digit strings of equal length compared as numbers
DigitsLeq(z, m) ==
    \A i \in DOMAIN z :
        (\A j \in 1..(i - 1) : z[j] = m[j]) => ToDigit(z[i]) <= ToDigit(m[i])

\* the number written by a signed decimal string lies in -2^31 .. 2^31 - 1
FitsI32(s) ==
    LET z == StripZeros(Unsigned(s))
        m == IF s[1] = "-"
             THEN <<"2","1","4","7","4","8","3","6","4","8">>
             ELSE <<"2","1","4","7","4","8","3","6","4","7">>
    IN  \/ Len(z) < 10
        \/ Len(z) = 10 /\ DigitsLeq(z, m)

\* the adapter the routing rule names for an identifier
ExpectedAdapter(s) ==
    IF IsSignedDecimal(s) /\ FitsI32(s) THEN "curseforge"
    ELSE IF Cardinality({i \in DOMAIN s : s[i] = "/"}) = 1 THEN "github"
    ELSE "modrinth"

Dispatched == pc \in {"await", "answered", "returned", "done"}

\* C8: ModProvider::add calls exactly one adapter: CurseForge iff the
\* identifier is a signed 32-bit integer, otherwise GitHub iff it holds
\* exactly one '/', otherwise Modrinth; the route depends on the identifier
\* alone.
C8_RoutesByShape ==
    /\ pc # "panic"
    /\ ~Dispatched => calls = <<>>
    /\ Dispatched =>
          /\ Len(calls) = 1
          /\ calls[1].adapter = ExpectedAdapter(identifier)

C8_Witness ==
    /\ pc = "done"
    /\ identifier = <<"/", "7">>
    /\ Len(calls) = 1
    /\ calls[1].adapter = "github"

\* C9 as stated: a signed decimal digit string of any magnitude is never
\* routed to the Modrinth adapter.
C9_DigitsNeverModrinth ==
    (Dispatched /\ IsSignedDecimal(identifier)) =>
        \A i \in DOMAIN calls : calls[i].adapter # "modrinth"

\* C9 amended: a signed decimal digit string whose value lies in the signed
\* 32-bit range is never routed to the Modrinth adapter.
C9_I32DigitsNeverModrinth ==
    (Dispatched /\ IsSignedDecimal(identifier) /\ FitsI32(identifier)) =>
        \A i \in DOMAIN calls : calls[i].adapter # "modrinth"

C9_Witness ==
    /\ pc = "done"
    /\ identifier = <<"2","1","4","7","4","8","3","6","4","7">>
    /\ Len(calls) = 1
    /\ calls[1].adapter = "curseforge"
    /\ calls[1].project_id = I32Max

(***************************************************************************)
(* Properties of add_multiple (checked under Spec)                         *)
(***************************************************************************)
\* the input positions add_multiple has finished with
Processed == 1..(Len(identifiers) - Len(rest))

OkPositions == {i \in Processed : results[i].ok}

ErrPositions == {i \in Processed : ~results[i].ok}

\* C10: success_names and failures together hold one entry for each input
\* position: as many names as positions that succeeded, as many failures as
\* positions that failed, each identifier as often among the failures as it
\* failed in the input, and N entries in all when the batch returns.
C10_PartitionTotal ==
    pc \in {"for", "done"} =>
        /\ Len(results) = Len(identifiers) - Len(rest)
        /\ Len(success_names) = Cardinality(OkPositions)
        /\ Len(failures) = Cardinality(ErrPositions)
        /\ Len(success_names) + Len(failures) = Len(identifiers) - Len(rest)
        /\ \A id \in BatchIds :
              Cardinality({j \in DOMAIN failures : failures[j][1] = id})
                  = Cardinality({i \in ErrPositions : identifiers[i] = id})
        /\ pc = "done" =>
              /\ rest = <<>>
              /\ ret = <<success_names, failures>>
              /\ Len(ret[1]) + Len(ret[2]) = Len(identifiers)

C10_Witness ==
    /\ pc = "done"
    /\ identifiers = << <<"a">>, <<"a">> >>
    /\ ret[1] = <<"Sodium">>
    /\ ret[2] = << << <<"a">>, <<"InvalidIdentifier">> >> >>

\* the j-th smallest element of a set of positions
Nth(S, j) == CHOOSE i \in S : Cardinality({k \in S : k < i}) = j - 1

\* C11: the names in success_names are those of the positions that
\* succeeded, in input order, and the failures are those of the positions
\* that failed, in input order, each with the identifier of its position.
C11_OrderPreserved ==
    pc \in {"for", "done"} =>
        /\ DOMAIN success_names = 1..Cardinality(OkPositions)
        /\ DOMAIN failures = 1..Cardinality(ErrPositions)
        /\ \A j \in DOMAIN success_names :
              success_names[j] = results[Nth(OkPositions, j)].name
        /\ \A j \in DOMAIN failures :
              failures[j][1] = identifiers[Nth(ErrPositions, j)]
        /\ pc = "done" => ret = <<success_names, failures>>

C11_Witness ==
    /\ pc = "done"
    /\ identifiers = << <<"7">>, <<"a">> >>
    /\ ret[2] = << << <<"7">>, <<"AlreadyAdded">> >>,
                   << <<"a">>, <<"NotAMod">> >> >>

\* the adapter call ModProvider::add makes for an identifier
IsCallFor(c, id) ==
    /\ c.adapter = ExpectedAdapter(id)
    /\ c.adapter = "modrinth" => c.identifier = id
    /\ c.adapter = "github" => c.owner \o <<"/">> \o c.repo = id
    /\ c.adapter = "curseforge" =>
          /\ IsSignedDecimal(id)
          /\ c.project_id = ParseI32(id).value

\* C12: add_multiple dispatches each identifier once, in input order,
\* whatever the earlier outcomes were: between iterations one call has been
\* made for each position consumed, the batch returns only when every
\* identifier has been dispatched, and it is never stuck before it returns.
C12_NoShortCircuit ==
    /\ pc \in {"for", "done"} =>
          /\ Len(calls) = Len(identifiers) - Len(rest)
          /\ \A i \in DOMAIN calls : IsCallFor(calls[i], identifiers[i])
    /\ pc = "done" =>
          /\ rest = <<>>
          /\ Len(calls) = Len(identifiers)
          /\ Len(results) = Len(identifiers)
    /\ (entry = "add_multiple" /\ pc # "done") => ENABLED Next

C12_Witness ==
    /\ pc = "done"
    /\ Len(identifiers) = 2
    /\ ~results[1].ok
    /\ results[2].ok
    /\ Len(calls) = 2
    /\ calls[1].adapter = "github"
    /\ calls[2].adapter = "curseforge"

InvalidIDorSlug == <<"ModrinthError", <<"InvalidIDorSlug", "ferinth">>>>

\* C13: a failure is recorded as InvalidIdentifier when the dispatcher
\* returned Modrinth's "invalid id or slug" error, and with the error the
\* dispatcher returned in every other case.
C13_FailureErrors ==
    pc \in {"for", "done"} =>
        /\ DOMAIN failures = 1..Cardinality(ErrPositions)
        /\ \A j \in DOMAIN failures :
              LET e == results[Nth(ErrPositions, j)].err
              IN  IF e = InvalidIDorSlug
                  THEN failures[j][2] = <<"InvalidIdentifier">>
                  ELSE failures[j][2] = e

C13_Witness ==
    /\ pc = "done"
    /\ Len(failures) = 2
    /\ results[1].err = InvalidIDorSlug
    /\ failures[1][2] = <<"InvalidIdentifier">>
    /\ results[2].err = <<"ModrinthError", <<"ReqwestError", "500">>>>
    /\ failures[2][2] = results[2].err

(***************************************************************************)
(* Properties of the error conversions and of the dispatcher               *)
(***************************************************************************)
LastCall == calls[Len(calls)]

\* the normalized error of a provider's error, by the adapter it came from
Normalized(adapter, raw) ==
    CASE adapter = "curseforge" ->
            IF raw = <<"ReqwestError", "404">> THEN <<"DoesNotExist">>
            ELSE <<"CurseForgeError", raw>>
      [] adapter = "modrinth" ->
            IF raw = <<"ReqwestError", "404">> THEN <<"DoesNotExist">>
            ELSE <<"ModrinthError", raw>>
      [] adapter = "github" ->
            IF raw = <<"GitHub", "Not Found">> THEN <<"DoesNotExist">>
            ELSE <<"GitHubError", raw>>

\* C14: a provider error crossing into the core becomes DoesNotExist when it
\* is the provider's "not found", and otherwise the wrapped kind of that
\* provider carrying the error unchanged.
C14_ErrorNormalization ==
    /\ (pc = "answered" /\ answer.raw # <<>>) =>
          answer.err = Normalized(LastCall.adapter, answer.raw)
    /\ (pc = "returned" /\ answer.raw # <<>>) =>
          /\ ~result.ok
          /\ result.err = Normalized(LastCall.adapter, answer.raw)

C14_Witness ==
    /\ pc = "returned"
    /\ LastCall.adapter = "github"
    /\ answer.raw = <<"GitHub", "Bad credentials">>
    /\ result.err = <<"GitHubError", <<"GitHub", "Bad credentials">>>>

\* C15: ModProvider::add returns the result of the one adapter it called:
\* the name on success, the error on failure, with no second adapter call.
C15_NoRecovery ==
    /\ pc = "answered" => Len(calls) = Len(results) + 1
    /\ pc \in {"returned", "done"} =>
          /\ Len(calls) = Len(results)
          /\ result.ok = answer.ok
          /\ result.ok => result.name = answer.name
          /\ ~result.ok => result.err = answer.err
    /\ (pc = "done" /\ entry = "add_single") => Len(calls) = 1

C15_Witness ==
    /\ pc = "done"
    /\ entry = "add_single"
    /\ calls[1].adapter = "curseforge"
    /\ ~answer.ok
    /\ ret = Err(<<"DoesNotExist">>)
    /\ Len(calls) = 1

\* C16: add_single reports the name add_multiple would list, and on failure
\* the error add_multiple would record for the same adapter outcome.
C16_SingleSameAsBatch ==
    (pc = "done" /\ entry = "add_single") =>
        IF answer.ok
        THEN ret.ok /\ ret.name = answer.name
        ELSE ~ret.ok /\ ret.err = MapErr(answer.err)

\* the names added by the calls before call i, in order
ProfileBefore(i) ==
    LET S == {k \in 1..(i - 1) : results[k].ok}
    IN  [j \in 1..Cardinality(S) |-> results[Nth(S, j)].name]

\* C17: at most one adapter call is in flight, a call starts only after
\* every earlier call has returned, and the profile handed to a call holds
\* what the earlier calls added.
C17_OneCallAtATime ==
    /\ Len(calls) - Len(results) \in {0, 1}
    /\ Len(calls) - Len(results) = 1 <=> pc \in {"await", "answered"}
    /\ pc = "await" => call = LastCall
    /\ Len(seen) = Len(calls)
    /\ \A i \in DOMAIN seen : seen[i].profile = ProfileBefore(i)

C17_Witness ==
    /\ pc = "await"
    /\ Len(calls) = 2
    /\ Len(results) = 1
    /\ seen[1].profile = <<>>
    /\ seen[2].profile = <<"Lithium">>

\* C18: no step of ModProvider::add, add_single or add_multiple writes the
\* register, and every adapter call is handed the value it has.
C18_RegisterUnchanged ==
    [][ /\ checks' = checks
        /\ \A i \in DOMAIN seen' : seen'[i].checks = checks ]_vars

C18_Witness ==
    /\ pc = "done"
    /\ checks = 5
    /\ Len(seen) = 2
    /\ seen[1].checks = 5
    /\ seen[2].checks = 5

OneSlash(s) == Cardinality({i \in DOMAIN s : s[i] = "/"}) = 1

\* C19: on the GitHub route the identifier splits into exactly two
\* segments, owner and repository, which are handed to the adapter as they
\* are, an empty one included; the call is made without a panic.
C19_GitHubSplit ==
    /\ pc # "panic"
    /\ (Dispatched /\ OneSlash(identifier) /\ entry = "add_single") =>
          /\ Len(calls) = 1
          /\ calls[1].adapter = "github"
    /\ \A i \in DOMAIN calls :
          calls[i].adapter = "github" =>
              /\ Len(Split(identifier, "/")) = 2
              /\ "/" \notin {calls[i].owner[k] : k \in DOMAIN calls[i].owner}
              /\ "/" \notin {calls[i].repo[k] : k \in DOMAIN calls[i].repo}
              /\ calls[i].owner \o <<"/">> \o calls[i].repo = identifier

C19_Witness ==
    /\ pc = "done"
    /\ identifier = <<"a", "/">>
    /\ calls[1].adapter = "github"
    /\ calls[1].owner = <<"a">>
    /\ calls[1].repo = <<>>
    /\ ret.ok

UnsetOps == {"unset_perform_check", "unset_game_version", "unset_mod_loader"}

\* C20: when the last three operations called on the register are the three
\* unset operations, in any order, all three flags read false.
C20_AllUnsetReadsFalse ==
    (/\ Len(hist) >= 3
     /\ {hist[Len(hist) - 2], hist[Len(hist) - 1], hist[Len(hist)]} = UnsetOps)
        => Flags(checks) = <<FALSE, FALSE, FALSE>>

C20_Witness ==
    /\ hist = <<"unset_perform_check", "unset_mod_loader", "unset_game_version">>
    /\ checks = 0

====
